---------------------------- MODULE Spec2Model ----------------------------
(***************************************************************************)
(* A model of the onto-show back end: the OWL-to-graph compiler            *)
(* (app/utils/ontology_parser.py), the caching query service               *)
(* (app/services/ontology_service.py) and the HTTP router                  *)
(* (app/routers/ontology_router.py), and the XML character escaping of     *)
(* app/utils/xml_cleaner.py.                                               *)
(*                                                                         *)
(* Conventions.                                                            *)
(*   Optional[x]   <<>> is None, <<x>> is the value x.                     *)
(*   text          a sequence of characters (label, definition, query).    *)
(*   id            a TLA+ string (the key of the node table).              *)
(*   IRI           the sequence of its "/"-separated parts; an entity of   *)
(*                 the graph is identified with its IRI (str(s)).          *)
(*   dict          a sequence of [key, value] in insertion order, as the   *)
(*                 Python dict iterates.                                   *)
(***************************************************************************)
EXTENDS Integers, Sequences, FiniteSets, TLC

VARIABLES
    g,          \* parse: the triple set handed to parse_ontology
    nodes,      \* parse: the dict parse_ontology returned
    parsed,     \* parse: TRUE once parse_ontology has returned
    file,       \* the OWL file at owl_file_path: [ok, graph]
    now,        \* time.time()
    cache,      \* OntologyService._cache (Optional dict)
    cache_timestamp,  \* OntologyService._cache_timestamp (Optional number)
    call,       \* the last operation called on the service and its outcome
    prev,       \* history: the operation before it
    cleared,    \* history: clear_cache ran since the last operation
    lastBuild,  \* history: when the snapshot in use was built (None: no snapshot)
    threads,    \* concurrent callers: each one's position and locals
    request,    \* router: the HTTP request being answered
    response,   \* router: its response
    test_text,  \* xml: the text of the round trip
    escaped,    \* xml: escape_xml_chars(test_text) (Optional text)
    unescaped   \* xml: unescape_xml_chars(escaped) (Optional text)

parseVars == <<g, nodes, parsed>>

xmlVars == <<test_text, escaped, unescaped>>

serviceVars == <<file, now, cache, cache_timestamp, call, prev, cleared, lastBuild>>

\* what the sequential service steps leave alone
besideService == <<g, nodes, parsed, threads, request, response, xmlVars>>

vars == <<g, nodes, parsed, file, now, cache, cache_timestamp, call, prev,
          cleared, lastBuild, threads, request, response, test_text, escaped,
          unescaped>>

---------------------------------------------------------------------------
(* Optional values and Python truthiness                                   *)

None == <<>>

Some(x) == <<x>>

\* `x and ...` on an Optional[str] given as text: None and "" are falsy.
TruthyText(opt) == opt # None /\ opt[1] # <<>>

---------------------------------------------------------------------------
(* The Triple Source: what rdflib's Graph answers                          *)

RDFS_subClassOf_type == "subClassOf"

PartOfType == "partOf"

\* str(PART_OF): OBO["BFO_0000050"]
PART_OF == "http://purl.obolibrary.org/obo/BFO_0000050"

\* some other object property, e.g. has_part
OTHER_PROPERTY == "http://purl.obolibrary.org/obo/BFO_0000051"

\* Two classes whose IRIs end in the same segment, and two blank nodes.
UA == <<"http:", "", "purl.obolibrary.org", "obo", "A">>

UA2 == <<"http:", "", "example.org", "alt", "A">>

R1 == <<"r1">>

R2 == <<"r2">>

Named == {UA, UA2}

Blank == {R1, R2}

Entity == Named \cup Blank

\* An object of a (subject, predicate, _) pattern: a Literal with its
\* language tag (<<>>: none), or a non-literal term.
Lit(text, lang) == [literal |-> TRUE, text |-> text, lang |-> lang]

NonLit == [literal |-> FALSE, text |-> "", lang |-> None]

---------------------------------------------------------------------------
(* app/models/schema.py                                                    *)

ParentRelation(parentId, relationType) ==
    [parentId |-> parentId, relationType |-> relationType]

ChildRelation(childId, relationType) ==
    [childId |-> childId, relationType |-> relationType]

\* TreeNode(id=..., label=..., ...): the fields not given take their defaults.
TreeNode(id, label, label_zh, definition, definition_zh, iri) ==
    [id |-> id, label |-> label, label_zh |-> label_zh,
     definition |-> definition, definition_zh |-> definition_zh, iri |-> iri,
     isLeaf |-> TRUE, count |-> 0, children |-> <<>>, parents |-> <<>>]

\* TreeNode(id=child_id)
StubNode(id) == TreeNode(id, None, None, None, None, None)

---------------------------------------------------------------------------
(* Python dict, insertion-ordered                                          *)

DictKeys(d) == {d[i].key : i \in DOMAIN d}

DictIndex(d, k) == CHOOSE i \in DOMAIN d : d[i].key = k

DictGet(d, k) == d[DictIndex(d, k)].value

\* d[k] = v : a new key is appended, an existing key keeps its position.
DictSet(d, k, v) ==
    IF k \in DictKeys(d)
    THEN [d EXCEPT ![DictIndex(d, k)].value = v]
    ELSE Append(d, [key |-> k, value |-> v])

\* list(d.values())
DictValues(d) == [i \in DOMAIN d |-> d[i].value]

---------------------------------------------------------------------------
(* app/utils/ontology_parser.py                                            *)

RECURSIVE FirstLiteral(_, _, _)
\* _get_literal's loop over graph.objects(subject, predicate), from index i
FirstLiteral(objs, lang, i) ==
    IF i > Len(objs) THEN None
    ELSE IF objs[i].literal /\ (lang = None \/ objs[i].lang = lang)
         THEN Some(objs[i].text)
         ELSE FirstLiteral(objs, lang, i + 1)

\* _get_literal(graph, subject, predicate, lang)
GetLiteral(objs, lang) == FirstLiteral(objs, lang, 1)

\* str(s).split("/")[-1]
LastSegment(iri) == iri[Len(iri)]

\* _get_literal(g, s, OBOINOWL.id) or str(s).split("/")[-1]
ResolveId(graph, s) ==
    LET lit == GetLiteral(graph.ids[s], None)
    IN  IF lit # None /\ lit[1] # "" THEN lit[1] ELSE LastSegment(s)

\* node_id of step 1
DeclaredId(graph, s) == ResolveId(graph, s)

\* child_id, parent_id of step 2
SubClassChildId(graph, s) == ResolveId(graph, s)

\* A variant of SubClassParentId that ignores the id annotation.
SubClassParentIdFromIri(graph, o) == LastSegment(o)

SubClassParentId(graph, o) == ResolveId(graph, o)

\* child_id, parent_id of step 3
PartOfChildId(graph, s) == ResolveId(graph, s)

PartOfParentId(graph, parent_uri) == ResolveId(graph, parent_uri)

\* Step 1, the body of the loop for one subject s
DeclareClass(graph, d, s) ==
    LET node_id == DeclaredId(graph, s)
    IN  DictSet(d, node_id,
                TreeNode(node_id,
                         GetLiteral(graph.labels[s], None),
                         GetLiteral(graph.labels[s], Some("zh")),
                         GetLiteral(graph.definitions[s], None),
                         GetLiteral(graph.definitions[s], Some("zh")),
                         Some(s)))

RECURSIVE Step1(_, _, _)
\* for s in g.subjects(RDF.type, OWL.Class)
Step1(graph, d, i) ==
    IF i > Len(graph.classes) THEN d
    ELSE Step1(graph, DeclareClass(graph, d, graph.classes[i]), i + 1)

\* if id not in nodes: nodes[id] = TreeNode(id=id)
EnsureNode(d, id) ==
    IF id \in DictKeys(d) THEN d ELSE DictSet(d, id, StubNode(id))

\* nodes[child_id].parents.append(ParentRelation(...))
AppendParent(d, child_id, parent_id, relationType) ==
    LET i == DictIndex(d, child_id)
    IN  [d EXCEPT ![i].value.parents =
            Append(@, ParentRelation(parent_id, relationType))]

\* A variant of AppendChild that leaves a self-reference without its child edge.
AppendChildUnlessSelf(d, parent_id, child_id, relationType) ==
    IF parent_id = child_id THEN d
    ELSE LET i == DictIndex(d, parent_id)
         IN  [d EXCEPT ![i].value.children =
                 Append(@, ChildRelation(child_id, relationType))]

\* nodes[parent_id].children.append(ChildRelation(...))
AppendChild(d, parent_id, child_id, relationType) ==
    LET i == DictIndex(d, parent_id)
    IN  [d EXCEPT ![i].value.children =
            Append(@, ChildRelation(child_id, relationType))]

\* A variant of ClearLeaf that clears the flag of declared nodes only.
ClearLeafDeclaredOnly(d, parent_id) ==
    LET i == DictIndex(d, parent_id)
    IN  IF d[i].value.iri = None THEN d
        ELSE [d EXCEPT ![i].value.isLeaf = FALSE]

\* nodes[parent_id].isLeaf = False
ClearLeaf(d, parent_id) ==
    [d EXCEPT ![DictIndex(d, parent_id)].value.isLeaf = FALSE]

\* The edge-adding block shared by steps 2 and 3: create the missing
\* nodes, append both directions, clear the parent's leaf flag.
AddRelation(d, child_id, parent_id, relationType) ==
    LET d1 == EnsureNode(d, child_id)
        d2 == EnsureNode(d1, parent_id)
        d3 == AppendParent(d2, child_id, parent_id, relationType)
        d4 == AppendChild(d3, parent_id, child_id, relationType)
    IN  ClearLeaf(d4, parent_id)

\* (o, RDF.type, OWL.Restriction) in g
IsRestriction(graph, o) == o \in graph.restrictions

\* A variant of Step2Skips that skips nothing.
Step2SkipsNothing(graph, o) == FALSE

\* Step 2 skips the triples whose object is a restriction
Step2Skips(graph, o) == IsRestriction(graph, o)

RECURSIVE Step2(_, _, _)
\* for s, _, o in g.triples((None, RDFS.subClassOf, None))
Step2(graph, d, i) ==
    IF i > Len(graph.subClassOf) THEN d
    ELSE LET s == graph.subClassOf[i][1]
             o == graph.subClassOf[i][2]
         IN  IF Step2Skips(graph, o)
             THEN Step2(graph, d, i + 1)
             ELSE Step2(graph,
                        AddRelation(d, SubClassChildId(graph, s),
                                    SubClassParentId(graph, o),
                                    RDFS_subClassOf_type),
                        i + 1)

RECURSIVE Step3Targets(_, _, _, _, _)
\* for _, _, parent_uri in g.triples((restriction, OWL.someValuesFrom, None))
Step3Targets(graph, d, s, restriction, k) ==
    LET targets == graph.someValuesFrom[restriction]
    IN  IF k > Len(targets) THEN d
        ELSE Step3Targets(graph,
                          AddRelation(d, PartOfChildId(graph, s),
                                      PartOfParentId(graph, targets[k]),
                                      PartOfType),
                          s, restriction, k + 1)

RECURSIVE Step3Properties(_, _, _, _, _)
\* for _, _, property_uri in g.triples((restriction, OWL.onProperty, None))
Step3Properties(graph, d, s, restriction, j) ==
    LET props == graph.onProperty[restriction]
    IN  IF j > Len(props) THEN d
        ELSE IF props[j] = PART_OF
             THEN Step3Properties(graph,
                                  Step3Targets(graph, d, s, restriction, 1),
                                  s, restriction, j + 1)
             ELSE Step3Properties(graph, d, s, restriction, j + 1)

RECURSIVE Step3(_, _, _)
\* for s, _, restriction in g.triples((None, RDFS.subClassOf, None))
Step3(graph, d, i) ==
    IF i > Len(graph.subClassOf) THEN d
    ELSE LET s == graph.subClassOf[i][1]
             restriction == graph.subClassOf[i][2]
         IN  IF IsRestriction(graph, restriction)
             THEN Step3(graph, Step3Properties(graph, d, s, restriction, 1), i + 1)
             ELSE Step3(graph, d, i + 1)

\* for node in nodes.values(): node.count = len(node.children)
Step4(d) ==
    [i \in DOMAIN d |-> [d[i] EXCEPT !.value.count = Len(d[i].value.children)]]

\* parse_ontology, after g.parse has succeeded
parse_ontology(graph) ==
    Step4(Step3(graph, Step2(graph, Step1(graph, <<>>, 1), 1), 1))

---------------------------------------------------------------------------
(* app/services/ontology_service.py                                        *)

\* the cache lifetime of _get_parsed_data, in seconds
TTL == 3600

\* A variant of CacheExpired that already expires at an age of TTL.
CacheExpiredAtTtl(c, ts, current_time) ==
    c = None \/ ts = None \/ current_time - ts[1] >= TTL

\* self._cache is None or self._cache_timestamp is None or
\* current_time - self._cache_timestamp > 3600
CacheExpired(c, ts, current_time) ==
    c = None \/ ts = None \/ current_time - ts[1] > TTL

\* _get_parsed_data run without interruption at time current_time on the
\* file f: the fields afterwards, whether parse_ontology was called and
\* whether it raised (g.parse fails on a file that is no well-formed RDF/XML).
GetParsedData(c, ts, current_time, f) ==
    IF CacheExpired(c, ts, current_time)
    THEN IF f.ok
         THEN [cache |-> Some(parse_ontology(f.graph)),
               cache_timestamp |-> Some(current_time),
               rebuilt |-> TRUE, raised |-> FALSE]
         ELSE [cache |-> c, cache_timestamp |-> ts,
               rebuilt |-> TRUE, raised |-> TRUE]
    ELSE [cache |-> c, cache_timestamp |-> ts,
          rebuilt |-> FALSE, raised |-> FALSE]

\* str.lower() on one character of the modelled alphabet
LowerChar(ch) == IF ch = "A" THEN "a" ELSE ch

\* str.lower()
Lower(text) == [i \in DOMAIN text |-> LowerChar(text[i])]

\* needle in hay
Contains(hay, needle) ==
    \E i \in 0..(Len(hay) - Len(needle)) :
        SubSeq(hay, i + 1, i + Len(needle)) = needle

\* A variant of QueryLower that keeps the query's case.
QueryAsTyped(query) == query

\* query_lower = query.lower()
QueryLower(query) == Lower(query)

\* term.f and query_lower in term.f.lower()
FieldMatches(field, query_lower) ==
    TruthyText(field) /\ Contains(Lower(field[1]), query_lower)

\* the body of search_terms' loop: the first matching field appends the
\* term and continues with the next term
SearchTerm(results, term, query_lower) ==
    IF FieldMatches(term.label, query_lower) THEN Append(results, term)
    ELSE IF FieldMatches(term.label_zh, query_lower) THEN Append(results, term)
    ELSE IF FieldMatches(term.definition, query_lower) THEN Append(results, term)
    ELSE IF FieldMatches(term.definition_zh, query_lower) THEN Append(results, term)
    ELSE results

RECURSIVE SearchLoop(_, _, _, _)
\* for term in data.values()
SearchLoop(terms, query_lower, results, i) ==
    IF i > Len(terms) THEN results
    ELSE SearchLoop(terms, query_lower,
                    SearchTerm(results, terms[i], query_lower), i + 1)

\* search_terms, after _get_parsed_data
search_terms(data, query) ==
    SearchLoop(DictValues(data), QueryLower(query), <<>>, 1)

\* get_all_terms, after _get_parsed_data
get_all_terms(data) == DictValues(data)

\* get_term_by_id, after _get_parsed_data: data.get(term_id)
get_term_by_id(data, term_id) ==
    IF term_id \in DictKeys(data) THEN Some(DictGet(data, term_id)) ELSE None

RECURSIVE CountRelations(_, _, _)
\* the parents of the terms from index i on that have the relation type
CountRelations(terms, relationType, i) ==
    IF i > Len(terms) THEN 0
    ELSE Cardinality({k \in DOMAIN terms[i].parents :
                         terms[i].parents[k].relationType = relationType})
         + CountRelations(terms, relationType, i + 1)

RECURSIVE MaxParents(_, _, _)
\* max_depth = max(max_depth, len(term.parents)) over the terms from index i on
MaxParents(terms, max_depth, i) ==
    IF i > Len(terms) THEN max_depth
    ELSE MaxParents(terms,
                    IF Len(terms[i].parents) > max_depth
                    THEN Len(terms[i].parents) ELSE max_depth,
                    i + 1)

\* get_statistics, after _get_parsed_data
get_statistics(data) ==
    LET terms == DictValues(data)
        subClassOf_relations == CountRelations(terms, RDFS_subClassOf_type, 1)
        partOf_relations == CountRelations(terms, PartOfType, 1)
    IN  [total_terms |-> Len(terms),
         total_classes |-> Len(terms),
         total_relations |-> subClassOf_relations + partOf_relations,
         subClassOf_relations |-> subClassOf_relations,
         partOf_relations |-> partOf_relations,
         leaf_nodes |-> Cardinality({i \in DOMAIN terms : terms[i].isLeaf}),
         max_depth |-> MaxParents(terms, 0, 1)]

---------------------------------------------------------------------------
(* Bounded inputs of parse_ontology                                        *)

\* the longest enumeration of subClassOf triples
MaxSub == 2

\* the sequences without repetition over S, of length at most n
DistinctSeqs(S, n) ==
    UNION {{q \in [1..k -> S] : \A i, j \in 1..k : i # j => q[i] # q[j]} :
           k \in 0..n}

\* every subClassOf triple of the bounded graphs, in document order
AllSubClassOf ==
    <<<<UA, UA>>, <<UA, UA2>>, <<UA, R1>>, <<UA, R2>>,
      <<UA2, UA>>, <<UA2, UA2>>, <<UA2, R1>>, <<UA2, R2>>>>

RECURSIVE Pick(_, _, _)
\* the elements of q at the positions I, from position i on, in q's order
Pick(q, I, i) ==
    IF i > Len(q) THEN <<>>
    ELSE (IF i \in I THEN <<q[i]>> ELSE <<>>) \o Pick(q, I, i + 1)

Reverse(q) == [i \in DOMAIN q |-> q[Len(q) + 1 - i]]

\* the enumerations of at most MaxSub triples: the store answers in
\* document order or in its reverse
SubClassOfEnumerations ==
    UNION {{Pick(AllSubClassOf, I, 1), Reverse(Pick(AllSubClassOf, I, 1))} :
           I \in {J \in SUBSET (DOMAIN AllSubClassOf) : Cardinality(J) <= MaxSub}}

\* the objects of oboInOwl:id on a subject: none, an empty literal, a
\* non-literal object before a literal
IdChoices == {<<>>, <<Lit("", None)>>, <<NonLit, Lit("B", None)>>}

\* one blank node's triples: its type, its onProperty and someValuesFrom objects
RestrictionShapes ==
    [typed : BOOLEAN,
     props : {<<>>, <<PART_OF>>, <<OTHER_PROPERTY>>},
     targets : {<<>>, <<UA>>, <<UA2>>, <<UA, UA2>>}]

WellFormedShapes ==
    [typed : {TRUE}, props : {<<PART_OF>>}, targets : {<<UA>>, <<UA2>>}]

NoShape == [typed |-> FALSE, props |-> <<>>, targets |-> <<>>]

\* A blank node no triple refers to carries nothing; the malformed shapes
\* are explored on R1, R2 is a second well-formed part-of restriction.
ShapesOf(r, sub) ==
    IF \A i \in DOMAIN sub : sub[i][2] # r THEN {NoShape}
    ELSE IF r = R1 THEN RestrictionShapes ELSE WellFormedShapes

NoText == [e \in Entity |-> <<>>]

MkGraph(classes, idc, sub, shape, labels, definitions) ==
    [classes |-> classes,
     ids |-> [e \in Entity |-> IF e = UA2 THEN idc ELSE <<>>],
     labels |-> labels,
     definitions |-> definitions,
     subClassOf |-> sub,
     restrictions |-> {r \in Blank : shape[r].typed},
     onProperty |-> [e \in Entity |-> IF e \in Blank THEN shape[e].props ELSE <<>>],
     someValuesFrom |->
         [e \in Entity |-> IF e \in Blank THEN shape[e].targets ELSE <<>>]]

---------------------------------------------------------------------------
(* Bounded inputs of the service                                           *)

\* the longest label, definition or query
MaxLen == 2

\* the most clock advances of a behaviour
MaxTicks == 2

Chars == {"a", "A"}

Texts == UNION {[1..k -> Chars] : k \in 0..MaxLen}

Zh == Some("zh")

En == Some("en")

\* the literals of one predicate on a class: none, one literal without a
\* language or in Chinese, an English one before a Chinese one
LabelChoices ==
    {<<>>}
    \cup {<<Lit(t, l)>> : t \in Texts, l \in {None, Zh}}
    \cup {<<Lit(t, En), Lit(<<"a">>, Zh)>> : t \in Texts}

DefinitionChoices == {<<>>} \cup {<<Lit(t, l)>> : t \in Texts, l \in {None, Zh}}

NoShapes == [r \in Blank |-> NoShape]

NoGraph == MkGraph(<<>>, <<>>, <<>>, NoShapes, NoText, NoText)

IdB == <<Lit("B", None)>>

\* The class UA with the given literals, and UA2 (id B) absent, a stub
\* parent of UA, or a declared parent of UA labelled "A".
SearchGraphs(labels, definitions) ==
    {MkGraph(<<UA>>, IdB, <<>>, NoShapes,
             [NoText EXCEPT ![UA] = labels], [NoText EXCEPT ![UA] = definitions]),
     MkGraph(<<UA>>, IdB, <<<<UA, UA2>>>>, NoShapes,
             [NoText EXCEPT ![UA] = labels], [NoText EXCEPT ![UA] = definitions]),
     MkGraph(<<UA2, UA>>, IdB, <<<<UA, UA2>>>>, NoShapes,
             [NoText EXCEPT ![UA] = labels, ![UA2] = <<Lit(<<"A">>, None)>>],
             [NoText EXCEPT ![UA] = definitions])}

OkFile(graph) == [ok |-> TRUE, graph |-> graph]

\* a file g.parse rejects
CorruptFile == [ok |-> FALSE, graph |-> NoGraph]

\* class B (UA2) subClassOf class A (UA), A labelled
FileA ==
    OkFile(MkGraph(<<UA, UA2>>, IdB, <<<<UA2, UA>>>>, NoShapes,
                   [NoText EXCEPT ![UA] = <<Lit(<<"a", "A">>, None)>>], NoText))

\* class A subClassOf a restriction: part-of some B
FileB ==
    OkFile(MkGraph(<<UA>>, IdB, <<<<UA, R1>>>>,
                   [NoShapes EXCEPT ![R1] =
                       [typed |-> TRUE, props |-> <<PART_OF>>, targets |-> <<UA2>>]],
                   NoText, NoText))

Files == {FileA, FileB, CorruptFile}

ServiceIds == {"A"}

ServiceQueries == {<<"a">>}

---------------------------------------------------------------------------
(* States and steps                                                        *)

NoCall == [op |-> "none"]

NoPrev == [valid |-> FALSE]

Threads == {"t1", "t2"}

\* a caller outside the service: pc, and the locals of _get_parsed_data
\* (current_time, the dict parse_ontology is returning) with its outcome
IdleThread ==
    [pc |-> "idle", current_time |-> 0, parsing |-> None, data |-> None,
     raised |-> FALSE]

NoRequest == [method |-> "none"]

NoResponse == [status |-> 0]

ParseIdle ==
    /\ g = NoGraph
    /\ nodes = <<>>
    /\ parsed = FALSE

\* no round trip of the XML cleaner under way
XmlIdle ==
    /\ test_text = <<>>
    /\ escaped = None
    /\ unescaped = None

\* OntologyService.__init__, the file being f
ServiceInit(f) ==
    /\ file = f
    /\ now = 0
    /\ cache = None
    /\ cache_timestamp = None
    /\ call = NoCall
    /\ prev = NoPrev
    /\ cleared = FALSE
    /\ lastBuild = None
    /\ threads = [t \in Threads |-> IdleThread]
    /\ request = NoRequest
    /\ response = NoResponse

InitParse ==
    /\ \E classes \in DistinctSeqs(Named, Cardinality(Named)), idc \in IdChoices,
          sub \in SubClassOfEnumerations :
          \E s1 \in ShapesOf(R1, sub), s2 \in ShapesOf(R2, sub) :
              g = MkGraph(classes, idc, sub,
                          [r \in Blank |-> IF r = R1 THEN s1 ELSE s2],
                          NoText, NoText)
    /\ nodes = <<>>
    /\ parsed = FALSE
    /\ XmlIdle
    /\ ServiceInit(OkFile(NoGraph))

\* nodes = parse_ontology(file_path)
ParseOntology ==
    /\ ~parsed
    /\ nodes' = parse_ontology(g)
    /\ parsed' = TRUE
    /\ UNCHANGED g
    /\ UNCHANGED <<serviceVars, threads, request, response, xmlVars>>

NextParse == ParseOntology

SpecParse == InitParse /\ [][NextParse]_vars

\* the operation's own code on the data _get_parsed_data returned
OperationResult(op, arg, data) ==
    CASE op = "get_all_terms" -> get_all_terms(data)
      [] op = "get_term_by_id" -> get_term_by_id(data, arg)
      [] op = "search_terms" -> search_terms(data, arg)
      [] op = "get_statistics" -> get_statistics(data)

\* One operation of the service run from its call to its return:
\* data = self._get_parsed_data(), then the operation's own code on data.
Serve(op, arg) ==
    LET r == GetParsedData(cache, cache_timestamp, now, file)
    IN  /\ cache' = r.cache
        /\ cache_timestamp' = r.cache_timestamp
        /\ call' = [op |-> op, arg |-> arg, at |-> now,
                    rebuilt |-> r.rebuilt, raised |-> r.raised,
                    result |-> IF r.raised THEN None
                               ELSE Some(OperationResult(op, arg, r.cache[1])),
                    before |-> cache, snapshot |-> r.cache,
                    builtBefore |-> lastBuild, clearedBefore |-> cleared]
        /\ prev' = IF call.op = "none" THEN NoPrev
                   ELSE [valid |-> TRUE, at |-> call.at, raised |-> call.raised,
                         snapshot |-> call.snapshot]
        /\ cleared' = FALSE
        /\ lastBuild' = IF r.rebuilt /\ ~r.raised THEN Some(now) ELSE lastBuild
        /\ UNCHANGED <<file, now>>

GetAllTerms ==
    /\ Serve("get_all_terms", None)
    /\ UNCHANGED besideService

GetTermById ==
    /\ \E term_id \in ServiceIds :
          Serve("get_term_by_id", term_id)
    /\ UNCHANGED besideService

SearchTerms(queries) ==
    /\ \E query \in queries :
          Serve("search_terms", query)
    /\ UNCHANGED besideService

GetStatistics ==
    /\ Serve("get_statistics", None)
    /\ UNCHANGED besideService

\* clear_cache
ClearCache ==
    /\ cache' = None
    /\ cache_timestamp' = None
    /\ cleared' = TRUE
    /\ lastBuild' = None
    /\ UNCHANGED <<file, now, call, prev>>
    /\ UNCHANGED besideService

\* the clock advances by a second or by a whole TTL
Tick ==
    /\ (now % TTL) + (now \div TTL) < MaxTicks
    /\ \E d \in {1, TTL} : now' = now + d
    /\ UNCHANGED <<file, cache, cache_timestamp, call, prev, cleared, lastBuild>>
    /\ UNCHANGED besideService

\* the OWL file is replaced on disk
EditFile ==
    /\ \E f \in Files \ {file} : file' = f
    /\ UNCHANGED <<now, cache, cache_timestamp, call, prev, cleared, lastBuild>>
    /\ UNCHANGED besideService

\* search_terms on a fresh service over the search graphs
InitSearch ==
    /\ ParseIdle
    /\ XmlIdle
    /\ \E labels \in LabelChoices, definitions \in DefinitionChoices :
          \E graph \in SearchGraphs(labels, definitions) :
              ServiceInit(OkFile(graph))

NextSearch == SearchTerms(Texts)

SpecSearch == InitSearch /\ [][NextSearch]_vars

\* one service instance used sequentially while time passes and the file changes
InitService ==
    /\ ParseIdle
    /\ XmlIdle
    /\ \E f \in Files : ServiceInit(f)

NextService ==
    \/ GetAllTerms
    \/ GetTermById
    \/ SearchTerms(ServiceQueries)
    \/ GetStatistics
    \/ ClearCache
    \/ Tick
    \/ EditFile

SpecService == InitService /\ [][NextService]_vars

---------------------------------------------------------------------------
(* One service instance called from several threads                        *)

\* what a thread's step inside the service leaves alone
besideThreads ==
    <<g, nodes, parsed, file, now, call, prev, cleared, lastBuild, request,
      response, xmlVars>>

Goto(t, pc) == [threads EXCEPT ![t].pc = pc]

\* a read operation is called: current_time = time.time()
Enter(t) ==
    /\ threads[t].pc = "idle"
    /\ threads' = [threads EXCEPT ![t] =
                      [IdleThread EXCEPT !.pc = "check_cache", !.current_time = now]]
    /\ UNCHANGED <<cache, cache_timestamp>>
    /\ UNCHANGED besideThreads

\* self._cache is None
CheckCache(t) ==
    /\ threads[t].pc = "check_cache"
    /\ threads' = Goto(t, IF cache = None THEN "parse" ELSE "check_timestamp")
    /\ UNCHANGED <<cache, cache_timestamp>>
    /\ UNCHANGED besideThreads

\* self._cache_timestamp is None
CheckTimestamp(t) ==
    /\ threads[t].pc = "check_timestamp"
    /\ threads' = Goto(t, IF cache_timestamp = None THEN "parse" ELSE "check_age")
    /\ UNCHANGED <<cache, cache_timestamp>>
    /\ UNCHANGED besideThreads

\* current_time - self._cache_timestamp > 3600; the subtraction raises
\* TypeError when the timestamp has become None
CheckAge(t) ==
    /\ threads[t].pc = "check_age"
    /\ threads' =
          IF cache_timestamp = None
          THEN [threads EXCEPT ![t].pc = "idle", ![t].raised = TRUE]
          ELSE Goto(t, IF threads[t].current_time - cache_timestamp[1] > TTL
                       THEN "parse" ELSE "return")
    /\ UNCHANGED <<cache, cache_timestamp>>
    /\ UNCHANGED besideThreads

\* parse_ontology(self.owl_file_path) is entered: g.parse reads the file
\* or raises
StartParse(t) ==
    /\ threads[t].pc = "parse"
    /\ threads' =
          IF file.ok
          THEN [threads EXCEPT ![t].pc = "parsing",
                               ![t].parsing = Some(parse_ontology(file.graph))]
          ELSE [threads EXCEPT ![t].pc = "idle", ![t].raised = TRUE]
    /\ UNCHANGED <<cache, cache_timestamp>>
    /\ UNCHANGED besideThreads

\* parse_ontology returns: self._cache = ...
FinishParse(t) ==
    /\ threads[t].pc = "parsing"
    /\ cache' = threads[t].parsing
    /\ threads' = [threads EXCEPT ![t].pc = "set_timestamp", ![t].parsing = None]
    /\ UNCHANGED cache_timestamp
    /\ UNCHANGED besideThreads

\* self._cache_timestamp = current_time
SetTimestamp(t) ==
    /\ threads[t].pc = "set_timestamp"
    /\ cache_timestamp' = Some(threads[t].current_time)
    /\ threads' = Goto(t, "return")
    /\ UNCHANGED cache
    /\ UNCHANGED besideThreads

\* return self._cache, and the operation's own code on it: a None raises
\* AttributeError
Return(t) ==
    /\ threads[t].pc = "return"
    /\ threads' = [threads EXCEPT ![t].pc = "idle", ![t].data = cache,
                                  ![t].raised = (cache = None)]
    /\ UNCHANGED <<cache, cache_timestamp>>
    /\ UNCHANGED besideThreads

\* clear_cache: self._cache = None
ClearCacheFirst(t) ==
    /\ threads[t].pc = "idle"
    /\ cache' = None
    /\ threads' = [threads EXCEPT ![t] = [IdleThread EXCEPT !.pc = "clear_timestamp"]]
    /\ UNCHANGED cache_timestamp
    /\ UNCHANGED besideThreads

\* clear_cache: self._cache_timestamp = None
ClearCacheSecond(t) ==
    /\ threads[t].pc = "clear_timestamp"
    /\ cache_timestamp' = None
    /\ threads' = Goto(t, "idle")
    /\ UNCHANGED cache
    /\ UNCHANGED besideThreads

InitThreads ==
    /\ ParseIdle
    /\ XmlIdle
    /\ \E f \in {FileA, CorruptFile} : ServiceInit(f)

NextThreads ==
    \/ \E t \in Threads :
          \/ Enter(t)
          \/ CheckCache(t)
          \/ CheckTimestamp(t)
          \/ CheckAge(t)
          \/ StartParse(t)
          \/ FinishParse(t)
          \/ SetTimestamp(t)
          \/ Return(t)
          \/ ClearCacheFirst(t)
          \/ ClearCacheSecond(t)
    \/ Tick

SpecThreads == InitThreads /\ [][NextThreads]_vars

---------------------------------------------------------------------------
(* app/routers/ontology_router.py                                          *)

\* the routes of the router in the order of their registration; paths are
\* given by their segments below the prefix /api/v1/ontology
Routes ==
    <<[method |-> "GET", path |-> <<"terms">>, endpoint |-> "get_all_terms"],
      [method |-> "GET", path |-> <<"terms", "{term_id}">>,
       endpoint |-> "get_term_by_id"],
      [method |-> "GET", path |-> <<"terms", "search">>, endpoint |-> "search_terms"],
      [method |-> "POST", path |-> <<"export">>, endpoint |-> "export_ontology"],
      [method |-> "GET", path |-> <<"stats">>, endpoint |-> "get_ontology_stats"]>>

\* a path parameter matches any one non-empty segment
SegmentMatches(pattern, segment) ==
    IF pattern = "{term_id}" THEN segment # "" ELSE pattern = segment

PathMatches(pattern, path) ==
    /\ Len(pattern) = Len(path)
    /\ \A i \in DOMAIN pattern : SegmentMatches(pattern[i], path[i])

\* the routes matching the request's path and method, and its path alone
FullMatches(req) ==
    {i \in DOMAIN Routes :
        PathMatches(Routes[i].path, req.path) /\ Routes[i].method = req.method}

PartialMatches(req) ==
    {i \in DOMAIN Routes : PathMatches(Routes[i].path, req.path)}

First(S) == CHOOSE i \in S : \A j \in S : i <= j

\* A variant of get_ontology_service that hands every request the instance
\* the request before it used.
SharedOntologyService ==
    [cache |-> cache, cache_timestamp |-> cache_timestamp]

\* get_ontology_service: OntologyService(str(OWL_FILE_PATH)), the fields as
\* __init__ sets them
get_ontology_service ==
    [cache |-> None, cache_timestamp |-> None]

\* the _get_parsed_data of the request's operation, on the service the
\* dependency returned
RequestData(f, current_time) ==
    GetParsedData(get_ontology_service.cache,
                  get_ontology_service.cache_timestamp, current_time, f)

Reply(status, endpoint, body) ==
    [status |-> status, endpoint |-> endpoint, body |-> body]

\* the endpoint functions; an exception no endpoint catches answers 500
Endpoint(route, req, f, current_time, io_ok) ==
    LET r == RequestData(f, current_time)
        name == route.endpoint
    IN  IF name = "search_terms" /\ req.q = None
        THEN Reply(422, name, None)
        ELSE IF name = "export_ontology"
        THEN IF r.raised \/ ~io_ok
             THEN Reply(500, name, None)
             ELSE Reply(200, name, Some("success"))
        ELSE IF r.raised THEN Reply(500, name, None)
        ELSE IF name = "get_all_terms"
        THEN Reply(200, name, Some(get_all_terms(r.cache[1])))
        ELSE IF name = "get_term_by_id"
        THEN LET term == get_term_by_id(r.cache[1], req.path[2])
             IN  IF term = None THEN Reply(404, name, None)
                 ELSE Reply(200, name, term)
        ELSE IF name = "search_terms"
        THEN Reply(200, name, Some(search_terms(r.cache[1], req.q[1])))
        ELSE Reply(200, name, Some(get_statistics(r.cache[1])))

\* the router answers with the first route that matches path and method
Respond(req, f, current_time, io_ok) ==
    IF FullMatches(req) # {}
    THEN Endpoint(Routes[First(FullMatches(req))], req, f, current_time, io_ok)
    ELSE IF PartialMatches(req) # {} THEN Reply(405, "none", None)
    ELSE Reply(404, "none", None)

Paths ==
    {<<"terms">>, <<"terms", "search">>, <<"terms", "A">>, <<"terms", "A", "B">>,
     <<"export">>, <<"stats">>}

Requests ==
    [method : {"GET", "POST"}, path : Paths, q : {None} \cup {Some(t) : t \in Texts}]

\* one HTTP request answered; writing the export may fail
HandleRequest ==
    /\ \E req \in Requests, io_ok \in BOOLEAN :
          /\ request' = req
          /\ response' = Respond(req, file, now, io_ok)
    /\ UNCHANGED <<parseVars, serviceVars, threads, xmlVars>>

InitRouter ==
    /\ ParseIdle
    /\ XmlIdle
    /\ \E f \in Files : ServiceInit(f)

NextRouter ==
    \/ HandleRequest
    \/ EditFile

SpecRouter == InitRouter /\ [][NextRouter]_vars

\* the requests that match a route, with no query or a query of the service
RoutedRequests ==
    {req \in Requests :
        /\ FullMatches(req) # {}
        /\ req.q \in {None} \cup {Some(query) : query \in ServiceQueries}}

\* A request that matches a route, followed through the service it is
\* given: cache and cache_timestamp are the fields of that instance when
\* the request has been answered. The endpoint calls one operation of the
\* service, which calls _get_parsed_data once; a request that fails
\* validation never reaches its endpoint.
RoutedRequest ==
    /\ \E req \in RoutedRequests, io_ok \in BOOLEAN :
          \E service \in {get_ontology_service}, r \in {RequestData(file, now)},
             answer \in {Respond(req, file, now, io_ok)} :
             LET ran == answer.status # 422
             IN  /\ request' = req
                 /\ response' = answer
                 /\ cache' = IF ran THEN r.cache ELSE service.cache
                 /\ cache_timestamp' =
                       IF ran THEN r.cache_timestamp ELSE service.cache_timestamp
                 /\ call' = [op |-> answer.endpoint, arg |-> req, at |-> now,
                             rebuilt |-> ran /\ r.rebuilt,
                             raised |-> ran /\ r.raised,
                             result |-> answer.body,
                             before |-> service.cache,
                             snapshot |-> IF ran THEN r.cache ELSE service.cache,
                             builtBefore |-> lastBuild, clearedBefore |-> cleared]
                 /\ prev' = IF call.op = "none" THEN NoPrev
                            ELSE [valid |-> TRUE, at |-> call.at,
                                  raised |-> call.raised,
                                  snapshot |-> call.snapshot]
                 /\ lastBuild' = IF ran /\ r.rebuilt /\ ~r.raised
                                 THEN Some(now) ELSE lastBuild
    /\ UNCHANGED <<file, now, cleared>>
    /\ UNCHANGED <<parseVars, threads, xmlVars>>

InitRequests ==
    /\ ParseIdle
    /\ XmlIdle
    /\ \E f \in Files : ServiceInit(f)

NextRequests ==
    \/ RoutedRequest
    \/ Tick
    \/ EditFile

SpecRequests == InitRequests /\ [][NextRequests]_vars

---------------------------------------------------------------------------
(* app/utils/xml_cleaner.py                                                *)

\* XMLCleaner.XML_ESCAPE_MAP in the order of its declaration, which is the
\* order .items() iterates in
XML_ESCAPE_MAP ==
    <<[char |-> <<"&">>, replacement |-> <<"&", "a", "m", "p", ";">>],
      [char |-> <<"<">>, replacement |-> <<"&", "l", "t", ";">>],
      [char |-> <<">">>, replacement |-> <<"&", "g", "t", ";">>],
      [char |-> <<"\"">>, replacement |-> <<"&", "q", "u", "o", "t", ";">>],
      [char |-> <<"'">>, replacement |-> <<"&", "a", "p", "o", "s", ";">>]>>

\* XMLCleaner.XML_UNESCAPE_MAP in the order of its declaration
XML_UNESCAPE_MAP ==
    <<[replacement |-> <<"&", "a", "m", "p", ";">>, char |-> <<"&">>],
      [replacement |-> <<"&", "l", "t", ";">>, char |-> <<"<">>],
      [replacement |-> <<"&", "g", "t", ";">>, char |-> <<">">>],
      [replacement |-> <<"&", "q", "u", "o", "t", ";">>, char |-> <<"\"">>],
      [replacement |-> <<"&", "a", "p", "o", "s", ";">>, char |-> <<"'">>]>>

\* str.replace(old, new): every occurrence of old, found from the left
\* without overlap, becomes new
RECURSIVE Replace(_, _, _)
Replace(text, old, new) ==
    IF Len(text) < Len(old) THEN text
    ELSE IF SubSeq(text, 1, Len(old)) = old
    THEN new \o Replace(SubSeq(text, Len(old) + 1, Len(text)), old, new)
    ELSE <<Head(text)>> \o Replace(Tail(text), old, new)

\* for char, replacement in self.XML_ESCAPE_MAP.items():
\*     escaped_text = escaped_text.replace(char, replacement)
RECURSIVE EscapeLoop(_, _)
EscapeLoop(escaped_text, i) ==
    IF i > Len(XML_ESCAPE_MAP) THEN escaped_text
    ELSE EscapeLoop(Replace(escaped_text, XML_ESCAPE_MAP[i].char,
                            XML_ESCAPE_MAP[i].replacement), i + 1)

escape_xml_chars(text) ==
    IF text = <<>> THEN text ELSE EscapeLoop(text, 1)

\* for replacement, char in self.XML_UNESCAPE_MAP.items():
\*     unescaped_text = unescaped_text.replace(replacement, char)
RECURSIVE UnescapeLoop(_, _)
UnescapeLoop(unescaped_text, i) ==
    IF i > Len(XML_UNESCAPE_MAP) THEN unescaped_text
    ELSE UnescapeLoop(Replace(unescaped_text, XML_UNESCAPE_MAP[i].replacement,
                              XML_UNESCAPE_MAP[i].char), i + 1)

unescape_xml_chars(text) ==
    IF text = <<>> THEN text ELSE UnescapeLoop(text, 1)

\* the longest text of a round trip
MaxText == 4

\* the characters of the texts: two the cleaner escapes and the letters and
\* semicolon of their entities
XmlChars == {"&", "<", "l", "t", ";"}

XmlTexts == UNION {[1..n -> XmlChars] : n \in 0..MaxText}

\* the round trip of one text: escaped = cleaner.escape_xml_chars(test_text)
EscapeXmlChars ==
    /\ escaped = None
    /\ escaped' = Some(escape_xml_chars(test_text))
    /\ UNCHANGED <<test_text, unescaped>>
    /\ UNCHANGED <<parseVars, serviceVars, threads, request, response>>

\* unescaped = cleaner.unescape_xml_chars(escaped)
UnescapeXmlChars ==
    /\ escaped # None
    /\ unescaped = None
    /\ unescaped' = Some(unescape_xml_chars(escaped[1]))
    /\ UNCHANGED <<test_text, escaped>>
    /\ UNCHANGED <<parseVars, serviceVars, threads, request, response>>

InitXml ==
    /\ ParseIdle
    /\ ServiceInit(OkFile(NoGraph))
    /\ test_text \in XmlTexts
    /\ escaped = None
    /\ unescaped = None

NextXml ==
    \/ EscapeXmlChars
    \/ UnescapeXmlChars

SpecXml == InitXml /\ [][NextXml]_vars

---------------------------------------------------------------------------
(* Properties of the graph parse_ontology returns                          *)

RelationTypes == {RDFS_subClassOf_type, PartOfType}

Range(q) == {q[i] : i \in DOMAIN q}

\* how many times x occurs in the list q
Count(q, x) == Cardinality({i \in DOMAIN q : q[i] = x})

\* the parent and child edges stored under key id (none when id is no key)
ParentsOf(d, id) == IF id \in DictKeys(d) THEN DictGet(d, id).parents ELSE <<>>

ChildrenOf(d, id) == IF id \in DictKeys(d) THEN DictGet(d, id).children ELSE <<>>

\* every id the dict mentions: as a key, as a node's id, as an edge's end
MentionedIds(d) ==
    DictKeys(d)
    \cup {d[i].value.id : i \in DOMAIN d}
    \cup UNION {{e.parentId : e \in Range(d[i].value.parents)} : i \in DOMAIN d}
    \cup UNION {{e.childId : e \in Range(d[i].value.children)} : i \in DOMAIN d}

\* every id a claim quantifies over: the mentioned ones and the entities' own
IdUniverse == MentionedIds(nodes) \cup {ResolveId(g, e) : e \in Entity}

\* C1: in the returned graph, for all ids p, c and relation type T, c's
\* parents hold the edge (p, T) exactly as many times as p's children hold
\* the edge (c, T).
C1_Reciprocity ==
    parsed =>
        \A p \in IdUniverse, c \in IdUniverse, T \in RelationTypes :
            Count(ParentsOf(nodes, c), ParentRelation(p, T))
                = Count(ChildrenOf(nodes, p), ChildRelation(c, T))

\* Two restrictions between one pair of ids that collide: a doubled
\* part-of self-reference.
C1_Witness ==
    /\ parsed
    /\ {R1, R2} \subseteq g.restrictions
    /\ {g.subClassOf[i][2] : i \in DOMAIN g.subClassOf} = {R1, R2}
    /\ \E c \in DictKeys(nodes) :
           Count(ParentsOf(nodes, c), ParentRelation(c, PartOfType)) = 2

\* C2: in the returned graph every node's count is the length of its
\* children and its isLeaf flag says count = 0, stub nodes included.
C2_LeafCount ==
    parsed =>
        \A i \in DOMAIN nodes :
            /\ nodes[i].value.count = Len(nodes[i].value.children)
            /\ nodes[i].value.isLeaf = (nodes[i].value.count = 0)

\* A stub with a child made in pass 3 beside a stub leaf.
C2_Witness ==
    /\ parsed
    /\ \E i, j \in DOMAIN nodes :
           /\ nodes[i].value.iri = None /\ nodes[j].value.iri = None
           /\ nodes[i].value.isLeaf /\ nodes[i].value.parents # <<>>
           /\ ~nodes[j].value.isLeaf /\ nodes[j].value.count = 1
           /\ nodes[j].value.children[1].relationType = PartOfType

\* the subClassOf triples that state a direct edge c -> p
DirectTriples(c, p) ==
    {i \in DOMAIN g.subClassOf :
        /\ g.subClassOf[i][2] \notin g.restrictions
        /\ ResolveId(g, g.subClassOf[i][1]) = c
        /\ ResolveId(g, g.subClassOf[i][2]) = p}

\* the positions a someValuesFrom enumeration has
TargetIndexes == UNION {DOMAIN g.someValuesFrom[e] : e \in Entity}

\* the (triple, target) pairs that state a part-of edge c -> p
PartOfTriples(c, p) ==
    {x \in (DOMAIN g.subClassOf) \X TargetIndexes :
        LET s == g.subClassOf[x[1]][1]
            r == g.subClassOf[x[1]][2]
        IN  /\ r \in g.restrictions
            /\ PART_OF \in Range(g.onProperty[r])
            /\ x[2] \in DOMAIN g.someValuesFrom[r]
            /\ ResolveId(g, s) = c
            /\ ResolveId(g, g.someValuesFrom[r][x[2]]) = p}

\* the ids some triple states an edge from or to
EdgeEnds ==
    {c \in IdUniverse :
        \E p \in IdUniverse :
            \/ DirectTriples(c, p) # {} \/ DirectTriples(p, c) # {}
            \/ PartOfTriples(c, p) # {} \/ PartOfTriples(p, c) # {}}

\* C8: every subClassOf triple with a plain object adds exactly one
\* SubClassOf edge; every one whose object is a restriction on part-of adds
\* one PartOf edge per target, makes the target a non-leaf and adds no
\* SubClassOf edge; a restriction lacking a sub-triple or on another
\* property adds no edge and creates no node.
C8_EdgeClassification ==
    parsed =>
        /\ \A c \in IdUniverse, p \in IdUniverse :
              /\ Count(ParentsOf(nodes, c), ParentRelation(p, RDFS_subClassOf_type))
                    = Cardinality(DirectTriples(c, p))
              /\ Count(ParentsOf(nodes, c), ParentRelation(p, PartOfType))
                    = Cardinality(PartOfTriples(c, p))
              /\ Count(ChildrenOf(nodes, p), ChildRelation(c, RDFS_subClassOf_type))
                    = Cardinality(DirectTriples(c, p))
              /\ Count(ChildrenOf(nodes, p), ChildRelation(c, PartOfType))
                    = Cardinality(PartOfTriples(c, p))
              /\ PartOfTriples(c, p) # {} => ~DictGet(nodes, p).isLeaf
        /\ DictKeys(nodes) = {ResolveId(g, s) : s \in Range(g.classes)} \cup EdgeEnds

\* A malformed restriction whose subject becomes no node, beside a
\* well-formed one whose edge is made.
C8_Witness ==
    /\ parsed
    /\ \E i \in DOMAIN g.subClassOf :
           /\ g.subClassOf[i] = <<UA, R1>>
           /\ R1 \in g.restrictions
           /\ ResolveId(g, UA) \notin DictKeys(nodes)
    /\ \E j \in DOMAIN nodes :
           \E e \in Range(nodes[j].value.parents) : e.relationType = PartOfType

\* C9: the returned dict holds each key once, each node under its own id,
\* every edge end is a key, and an entity is filed under one id whether it
\* is met as a declared class, a child, a parent or a restriction target.
C9_Identity ==
    parsed =>
        /\ \A i, j \in DOMAIN nodes : nodes[i].key = nodes[j].key => i = j
        /\ \A i \in DOMAIN nodes : nodes[i].value.id = nodes[i].key
        /\ MentionedIds(nodes) \subseteq DictKeys(nodes)
        /\ \A s \in Range(g.classes) : ResolveId(g, s) \in DictKeys(nodes)
        /\ \A i \in DOMAIN g.subClassOf :
              LET s == g.subClassOf[i][1]
                  o == g.subClassOf[i][2]
              IN  IF o \notin g.restrictions
                  THEN ParentRelation(ResolveId(g, o), RDFS_subClassOf_type)
                           \in Range(ParentsOf(nodes, ResolveId(g, s)))
                  ELSE PART_OF \in Range(g.onProperty[o]) =>
                           \A k \in DOMAIN g.someValuesFrom[o] :
                               ChildRelation(ResolveId(g, s), PartOfType) \in
                                   Range(ChildrenOf(nodes,
                                       ResolveId(g, g.someValuesFrom[o][k])))

\* The annotated class UA2, declared and met as child, parent and target.
C9_Witness ==
    /\ parsed
    /\ UA2 \in Range(g.classes)
    /\ ResolveId(g, UA2) = "B"
    /\ \E i \in DOMAIN nodes :
           /\ nodes[i].key = "B"
           /\ nodes[i].value.iri = Some(UA2)
           /\ ParentRelation("B", RDFS_subClassOf_type) \in Range(nodes[i].value.parents)
           /\ ChildRelation("B", PartOfType) \in Range(nodes[i].value.children)

---------------------------------------------------------------------------
(* Properties of search_terms                                              *)

TextFields == {"label", "label_zh", "definition", "definition_zh"}

\* the lower-cased query is a substring of a lower-cased text field of the term
Matches(term, query) ==
    \E f \in TextFields :
        term[f] # None /\ Contains(Lower(term[f][1]), Lower(query))

Searched == call.op = "search_terms" /\ ~call.raised

\* C3 (as claimed): search_terms("") returns every node of the snapshot.
C3_EmptyQueryReturnsAll ==
    (Searched /\ call.arg = <<>>) =>
        call.result[1] = DictValues(call.snapshot[1])

\* C4: for a non-empty query search_terms returns exactly the nodes one of
\* whose four lower-cased text fields contains the lower-cased query, each
\* once, in the snapshot's iteration order.
C4_SearchExact ==
    (Searched /\ call.arg # <<>>) =>
        call.result[1] =
            SelectSeq(DictValues(call.snapshot[1]),
                      LAMBDA term : Matches(term, call.arg))

\* An upper-case query matching two declared nodes in dict order, the
\* second through its definition only.
C4_Witness ==
    /\ Searched
    /\ call.arg = <<"A">>
    /\ Len(call.snapshot[1]) = 2
    /\ Len(call.result[1]) = 2
    /\ call.result[1][1].id = "B"
    /\ call.result[1][2].id = "A"
    /\ call.result[1][2].label = None

---------------------------------------------------------------------------
(* Properties of the cache                                                 *)

Called == call.op # "none"

\* a rebuild is triggered exactly when no snapshot exists or the last
\* build is older than TTL, and a call that triggers none leaves the
\* snapshot as it was
StalenessPolicy ==
    Called =>
        /\ call.rebuilt <=>
              (call.builtBefore = None \/ call.at - call.builtBefore[1] > TTL)
        /\ ~call.rebuilt =>
              /\ ~call.raised
              /\ call.before # None
              /\ call.snapshot = call.before

\* C5 (as claimed): the staleness policy, and two operations within TTL of
\* each other with no clear_cache between them observe the identical snapshot.
C5_WithinTtlOfEachOther ==
    /\ StalenessPolicy
    /\ (Called /\ prev.valid /\ ~call.clearedBefore
            /\ ~prev.raised /\ ~call.raised /\ call.at - prev.at <= TTL) =>
           call.snapshot = prev.snapshot

\* C5 (amended): the staleness policy, and an operation that is within TTL
\* of the last build (so triggers no rebuild) observes the snapshot the
\* operation before it observed.
C5_Staleness ==
    /\ StalenessPolicy
    /\ (Called /\ prev.valid /\ ~call.rebuilt) =>
           /\ ~prev.raised
           /\ call.snapshot = prev.snapshot

\* An operation served from the cache at an age of exactly TTL, after the
\* file has changed.
C5_Witness ==
    /\ Called
    /\ prev.valid
    /\ ~call.rebuilt
    /\ call.at - call.builtBefore[1] = TTL
    /\ file.ok
    /\ call.snapshot # Some(parse_ontology(file.graph))

\* C7 (as claimed): a failed rebuild reaches the caller only when no
\* snapshot exists; with a snapshot the operation is served from it.
C7_FailureKeepsServing ==
    (Called /\ call.raised) => call.before = None

---------------------------------------------------------------------------
(* Properties of concurrent callers                                        *)

\* the threads inside parse_ontology
Rebuilding == {t \in Threads : threads[t].pc = "parsing"}

\* C6 (as claimed): at no time are two rebuilds of one instance in progress.
C6_SingleRebuild == Cardinality(Rebuilding) <= 1

\* C11 (as claimed): under any interleaving every read operation computes
\* its result from a complete snapshot: while the file parses, no read
\* raises for want of a snapshot or a timestamp, and the data a read
\* returned is the whole graph of the file.
C11_CompleteSnapshot ==
    file.ok =>
        \A t \in Threads :
            /\ ~threads[t].raised
            /\ threads[t].data \in {None, Some(parse_ontology(file.graph))}

---------------------------------------------------------------------------
(* Properties of the router                                                *)

\* C10 (as claimed): GET /terms/search?q=<query> is answered by the search
\* operation with the sequence of matching nodes.
C10_SearchEndpoint ==
    (request.method = "GET" /\ request.path = <<"terms", "search">>
        /\ request.q # None /\ file.ok) =>
        /\ response.endpoint = "search_terms"
        /\ response.status = 200
        /\ response.body = Some(search_terms(parse_ontology(file.graph), request.q[1]))

\* C12: every request routed to an endpoint is given a service with an
\* empty cache and performs a rebuild, whatever the time since the request
\* before it: none is served from a snapshot an earlier request built.
C12_RebuildPerRequest ==
    Called =>
        /\ call.before = None
        /\ call.rebuilt
        /\ (~call.raised => call.snapshot # None /\ cache_timestamp = Some(call.at))

\* A request answered by a rebuild at the very time of the request before
\* it, which had built the same snapshot.
C12_Witness ==
    /\ Called
    /\ prev.valid
    /\ ~prev.raised
    /\ prev.at = call.at
    /\ call.rebuilt
    /\ ~call.raised
    /\ call.snapshot = prev.snapshot
    /\ response.status = 200

---------------------------------------------------------------------------
(* Properties of the XML cleaner                                           *)

\* C13 (as claimed): unescaping the escaped text gives the text back,
\* for every text, those that already contain an entity included.
C13_RoundTrip ==
    unescaped # None => unescaped[1] = test_text

===========================================================================
